---- MODULE Spec2Model ----
(***************************************************************************)
(* Model of the tuim UI components: the Size and Layout value types, the   *)
(* Table widget (src/components/table.rs) and the Container widget         *)
(* (src/components/mod.rs), with one action per method of TableTrait and   *)
(* UIElement.  A driver constructs one widget and then calls its methods   *)
(* in any order with any arguments.                                        *)
(***************************************************************************)
EXTENDS Integers, Sequences, FiniteSets, TLC

VARIABLES widget, args

vars == <<widget, args>>

(***************************************************************************)
(* Bounds of the model and the argument values the driver passes.          *)
(***************************************************************************)
MaxRows == 2
MaxChildren == 2

\* Numbers of columns of a header line or of a data row.
ColumnCounts == {1, 2}

\* u8 arguments (z index, Chars, Percents): the least and the greatest value.
\* 255 is a Percents value above 100.
U8Samples == {0, 255}
\* u32 arguments (current page, items by page): zero and a value far beyond
\* any page of the data (the defaults 0 and 20 are the ordinary ones).
U32Samples == {0, 2147483647}
TitleSamples == {"", "Title"}

(***************************************************************************)
(* mod.rs: enum Size, enum Layout.                                         *)
(***************************************************************************)
Auto == [kind |-> "Auto"]
Chars(n) == [kind |-> "Chars", n |-> n]
Percents(p) == [kind |-> "Percents", n |-> p]
Size == {Auto} \cup {Chars(n) : n \in U8Samples} \cup {Percents(p) : p \in U8Samples}
Layout == {"Horizontal", "Vertical", "Tabbed"}

\* A constructor that ignores its layout argument and keeps the first variant.
LayoutClone_default(l) == "Horizontal"

\* #[derive(Clone)] on Size and Layout: a clone has the same variant and payload.
SizeClone(s) == IF s.kind = "Auto" THEN Auto
                ELSE IF s.kind = "Chars" THEN Chars(s.n) ELSE Percents(s.n)
LayoutClone(l) == l

\* to_vec with an off-by-one copy loop: the last element is left out.
ToVec_skip_last(s) == [i \in 1..(Len(s) - 1) |-> s[i]]

\* slice::to_vec / Vec::clone: a new vector with the same elements in the same order.
ToVec(s) == [i \in 1..Len(s) |-> s[i]]

\* The driver's variable before a widget is constructed.
NoWidget == [kind |-> "None"]
NoArgs == [kind |-> "None"]

(***************************************************************************)
(* table.rs: struct Table, impl TableTrait for Table.                      *)
(***************************************************************************)
Table_new(headers, data) ==
    [kind |-> "Table",
     z_index |-> 0,
     headers |-> ToVec(headers),
     data |-> ToVec(data),
     border_vertical |-> " ",
     border_horizontal |-> " ",
     border_intersect |-> " ",
     padding_vertical |-> 1,
     padding_horizontal |-> 1,
     title |-> "",
     width |-> Auto,
     height |-> Auto,
     updated |-> TRUE,
     current_page |-> 0,
     items_by_page |-> 20]

Table_headers(self) == ToVec(self.headers)
Table_data(self) == self.data
Table_current_page(self) == self.current_page
\* set_current_page that clamps the page to the number of data rows.
Table_set_current_page_clamped(self, current_page) ==
    [self EXCEPT !.current_page = IF current_page > Len(self.data) THEN Len(self.data)
                                  ELSE current_page]
Table_set_current_page(self, current_page) == [self EXCEPT !.current_page = current_page]
Table_items_by_page(self) == self.items_by_page
Table_set_items_by_page(self, items_by_page) == [self EXCEPT !.items_by_page = items_by_page]

\* The methods TableTrait declares; Table has no inherent impl block.
TableTraitMethods == {"new", "headers", "data", "current_page", "set_current_page",
                      "items_by_page", "set_items_by_page"}

(***************************************************************************)
(* table.rs: impl UIElement for Table.                                     *)
(***************************************************************************)
Table_z_index(self) == self.z_index
Table_set_z_index(self, z_index) == [self EXCEPT !.z_index = z_index]
Table_title(self) == self.title
Table_set_title(self, title) == [self EXCEPT !.title = title]
Table_width(self) == SizeClone(self.width)
Table_set_width(self, width) == [self EXCEPT !.width = SizeClone(width)]
Table_height(self) == SizeClone(self.height)
\* set_height that also takes a height in chars as the vertical padding.
Table_set_height_pad(self, height) ==
    [self EXCEPT !.height = SizeClone(height),
                 !.padding_vertical = IF height.kind = "Chars" THEN height.n ELSE @]
Table_set_height(self, height) == [self EXCEPT !.height = SizeClone(height)]
Table_updated(self) == self.updated
Table_set_updated(self, updated) == [self EXCEPT !.updated = updated]
Table_border_vertical(self) == self.border_vertical
Table_border_horizontal(self) == self.border_horizontal
Table_border_intersect(self) == self.border_intersect
Table_padding_vertical(self) == self.padding_vertical
Table_padding_horizontal(self) == self.padding_horizontal

(***************************************************************************)
(* mod.rs: struct Container, impl Container, impl UIElement for Container. *)
(***************************************************************************)
Container_new(elements, layout) ==
    [kind |-> "Container",
     z_index |-> 0,
     title |-> "",
     width |-> Auto,
     height |-> Auto,
     updated |-> TRUE,
     border_vertical |-> " ",
     border_horizontal |-> " ",
     border_intersect |-> " ",
     padding_vertical |-> 0,
     padding_horizontal |-> 0,
     elements |-> elements,
     layout |-> LayoutClone(layout)]

\* The methods of Container's inherent impl block.
ContainerMethods == {"new"}

\* The methods the UIElement trait declares.
UIElementMethods == {"z_index", "set_z_index", "title", "set_title", "width", "set_width",
                     "height", "set_height", "updated", "set_updated", "border_vertical",
                     "border_horizontal", "border_intersect", "padding_vertical",
                     "padding_horizontal"}

Container_z_index(self) == self.z_index
\* set_z_index that cascades to the children (the TODO of mod.rs:153).
Container_set_z_index_cascade(self, z_index) ==
    [self EXCEPT !.z_index = z_index,
                 !.elements = [i \in 1..Len(@) |-> [@[i] EXCEPT !.z_index = z_index]]]
Container_set_z_index(self, z_index) == [self EXCEPT !.z_index = z_index]
Container_title(self) == self.title
Container_set_title(self, title) == [self EXCEPT !.title = title]
Container_width(self) == SizeClone(self.width)
Container_set_width(self, width) == [self EXCEPT !.width = SizeClone(width)]
Container_height(self) == SizeClone(self.height)
\* set_height copied from set_width with the field name left unchanged.
Container_set_height_into_width(self, height) == [self EXCEPT !.width = SizeClone(height)]
Container_set_height(self, height) == [self EXCEPT !.height = SizeClone(height)]
Container_updated(self) == self.updated
Container_set_updated(self, updated) == [self EXCEPT !.updated = updated]
Container_border_vertical(self) == self.border_vertical
Container_border_horizontal(self) == self.border_horizontal
Container_border_intersect(self) == self.border_intersect
Container_padding_vertical(self) == self.padding_vertical
Container_padding_horizontal(self) == self.padding_horizontal

(***************************************************************************)
(* Dynamic dispatch through Box<dyn UIElement>, as used for the children   *)
(* of a Container.                                                         *)
(***************************************************************************)
z_index(e) == IF e.kind = "Table" THEN Table_z_index(e) ELSE Container_z_index(e)
set_z_index(e, z) == IF e.kind = "Table" THEN Table_set_z_index(e, z)
                     ELSE Container_set_z_index(e, z)
title(e) == IF e.kind = "Table" THEN Table_title(e) ELSE Container_title(e)
width(e) == IF e.kind = "Table" THEN Table_width(e) ELSE Container_width(e)
height(e) == IF e.kind = "Table" THEN Table_height(e) ELSE Container_height(e)
updated(e) == IF e.kind = "Table" THEN Table_updated(e) ELSE Container_updated(e)
border_vertical(e) == IF e.kind = "Table" THEN Table_border_vertical(e)
                      ELSE Container_border_vertical(e)
border_horizontal(e) == IF e.kind = "Table" THEN Table_border_horizontal(e)
                        ELSE Container_border_horizontal(e)
border_intersect(e) == IF e.kind = "Table" THEN Table_border_intersect(e)
                       ELSE Container_border_intersect(e)
padding_vertical(e) == IF e.kind = "Table" THEN Table_padding_vertical(e)
                       ELSE Container_padding_vertical(e)
padding_horizontal(e) == IF e.kind = "Table" THEN Table_padding_horizontal(e)
                         ELSE Container_padding_horizontal(e)

(***************************************************************************)
(* The arguments the driver constructs widgets from.                       *)
(***************************************************************************)
SeqsUpTo(S, n) == UNION {[1..k -> S] : k \in 0..n}

\* Header j and the cell of row i, column j: all distinct strings.
HeaderName(j) == "h" \o ToString(j)
Cell(i, j) == "r" \o ToString(i) \o "c" \o ToString(j)

HeaderArgs == {[j \in 1..n |-> HeaderName(j)] : n \in ColumnCounts}

\* A data grid of up to MaxRows rows, each row of any length in ColumnCounts,
\* equal to the header length or not: new() takes them all.
DataArgs == {[i \in 1..Len(lens) |-> [j \in 1..lens[i] |-> Cell(i, j)]] :
                lens \in SeqsUpTo(ColumnCounts, MaxRows)}

\* Widgets a driver can box as children: a new table or a new empty container.
ChildPool == {Table_new(<<HeaderName(1)>>, <<>>), Container_new(<<>>, "Vertical")}
ElementArgs == SeqsUpTo(ChildPool, MaxChildren)

(***************************************************************************)
(* Actions: one per constructor and per method call of the driver.         *)
(***************************************************************************)
Init == widget = NoWidget /\ args = NoArgs

TableNew ==
    /\ widget.kind = "None"
    /\ \E headers \in HeaderArgs, data \in DataArgs :
          /\ widget' = Table_new(headers, data)
          /\ args' = [kind |-> "Table", headers |-> headers, data |-> data]

ContainerNew ==
    /\ widget.kind = "None"
    /\ \E elements \in ElementArgs, layout \in Layout :
          /\ widget' = Container_new(elements, layout)
          /\ args' = [kind |-> "Container", elements |-> elements, layout |-> layout]

TableSetCurrentPage(n) ==
    widget.kind = "Table" /\ widget' = Table_set_current_page(widget, n) /\ UNCHANGED args
TableSetItemsByPage(n) ==
    widget.kind = "Table" /\ widget' = Table_set_items_by_page(widget, n) /\ UNCHANGED args
TableSetZIndex(z) ==
    widget.kind = "Table" /\ widget' = Table_set_z_index(widget, z) /\ UNCHANGED args
TableSetTitle(t) ==
    widget.kind = "Table" /\ widget' = Table_set_title(widget, t) /\ UNCHANGED args
TableSetWidth(s) ==
    widget.kind = "Table" /\ widget' = Table_set_width(widget, s) /\ UNCHANGED args
TableSetHeight(s) ==
    widget.kind = "Table" /\ widget' = Table_set_height(widget, s) /\ UNCHANGED args
TableSetUpdated(b) ==
    widget.kind = "Table" /\ widget' = Table_set_updated(widget, b) /\ UNCHANGED args

ContainerSetZIndex(z) ==
    widget.kind = "Container" /\ widget' = Container_set_z_index(widget, z) /\ UNCHANGED args
ContainerSetTitle(t) ==
    widget.kind = "Container" /\ widget' = Container_set_title(widget, t) /\ UNCHANGED args
ContainerSetWidth(s) ==
    widget.kind = "Container" /\ widget' = Container_set_width(widget, s) /\ UNCHANGED args
ContainerSetHeight(s) ==
    widget.kind = "Container" /\ widget' = Container_set_height(widget, s) /\ UNCHANGED args
ContainerSetUpdated(b) ==
    widget.kind = "Container" /\ widget' = Container_set_updated(widget, b) /\ UNCHANGED args

\* container.elements[i].set_z_index(z): elements is a pub field.
ChildSetZIndex(i, z) ==
    /\ widget.kind = "Container"
    /\ i \in 1..Len(widget.elements)
    /\ widget' = [widget EXCEPT !.elements[i] = set_z_index(widget.elements[i], z)]
    /\ UNCHANGED args

Next ==
    \/ TableNew
    \/ ContainerNew
    \/ \E n \in U32Samples : TableSetCurrentPage(n)
    \/ \E n \in U32Samples : TableSetItemsByPage(n)
    \/ \E z \in U8Samples : TableSetZIndex(z)
    \/ \E t \in TitleSamples : TableSetTitle(t)
    \/ \E s \in Size : TableSetWidth(s)
    \/ \E s \in Size : TableSetHeight(s)
    \/ \E b \in BOOLEAN : TableSetUpdated(b)
    \/ \E z \in U8Samples : ContainerSetZIndex(z)
    \/ \E t \in TitleSamples : ContainerSetTitle(t)
    \/ \E s \in Size : ContainerSetWidth(s)
    \/ \E s \in Size : ContainerSetHeight(s)
    \/ \E b \in BOOLEAN : ContainerSetUpdated(b)
    \/ \E i \in 1..MaxChildren, z \in U8Samples : ChildSetZIndex(i, z)

Spec == Init /\ [][Next]_vars

(***************************************************************************)
(* Properties.                                                             *)
(***************************************************************************)
IsTable == widget.kind = "Table"
IsContainer == widget.kind = "Container"
IsWidget == IsTable \/ IsContainer

\* A step that is a call of a state-changing setter other than set_updated.
TableSetterStep ==
    \/ \E t \in TitleSamples : TableSetTitle(t)
    \/ \E s \in Size : TableSetWidth(s)
    \/ \E s \in Size : TableSetHeight(s)
    \/ \E z \in U8Samples : TableSetZIndex(z)
    \/ \E n \in U32Samples : TableSetCurrentPage(n)
    \/ \E n \in U32Samples : TableSetItemsByPage(n)
ContainerSetterStep ==
    \/ \E t \in TitleSamples : ContainerSetTitle(t)
    \/ \E s \in Size : ContainerSetWidth(s)
    \/ \E s \in Size : ContainerSetHeight(s)
    \/ \E z \in U8Samples : ContainerSetZIndex(z)
SetUpdatedStep ==
    \/ \E b \in BOOLEAN : TableSetUpdated(b)
    \/ \E b \in BOOLEAN : ContainerSetUpdated(b)

\* C1: dirty-flag contract, for Table and Container: every call of a
\* state-changing setter (set_title, set_width, set_height, set_z_index,
\* set_current_page, set_items_by_page) leaves updated() = true, and between
\* such calls only set_updated changes updated().
C1_DirtyFlagContract ==
    [][/\ (TableSetterStep \/ ContainerSetterStep) => updated(widget')
       /\ (IsWidget /\ ~(TableSetterStep \/ ContainerSetterStep) /\ ~SetUpdatedStep
             /\ widget'.kind = widget.kind)
            => updated(widget') = updated(widget)]_vars

\* C2: every Table that exists has all its data rows as long as its header
\* line (new() having failed for any other arguments).
C2_RowsMatchHeaders ==
    IsTable => \A i \in 1..Len(Table_data(widget)) :
                  Len(Table_data(widget)[i]) = Len(Table_headers(widget))

\* C3: headers() and data() of a Table return the headers and the data that
\* new() was given, same elements in the same order, after any sequence of
\* setter calls.
C3_RoundTrip ==
    IsTable => /\ Table_headers(widget) = args.headers
               /\ Table_data(widget) = args.data

\* A table of two columns and two different rows on which every setter has acted.
C3_Witness ==
    /\ IsTable
    /\ Len(args.headers) = 2 /\ args.headers[1] # args.headers[2]
    /\ Len(args.data) = 2 /\ args.data[1] # args.data[2] /\ Len(args.data[1]) = 2
    /\ Table_title(widget) = "Title"
    /\ Table_width(widget) = Percents(255)
    /\ Table_height(widget) = Chars(0)
    /\ Table_z_index(widget) = 255
    /\ ~Table_updated(widget)
    /\ Table_current_page(widget) = 2147483647
    /\ Table_items_by_page(widget) = 0

\* C4: Table exposes visible_rows(), among the methods of TableTrait and
\* UIElement, the two traits Table implements.
C4_TableExposesVisibleRows ==
    IsTable => "visible_rows" \in TableTraitMethods \cup UIElementMethods

\* C5: Container exposes resolve(available_width, available_height), among
\* its inherent methods and those of UIElement.
C5_ContainerExposesResolve ==
    IsContainer => "resolve" \in ContainerMethods \cup UIElementMethods

\* C6: Container::new(children, layout) yields a container with width and
\* height Auto, updated, three blank border glyphs, zero paddings, z index 0,
\* an empty title, the given children in the given order and the given layout.
C6_ContainerNew ==
    [][(widget.kind = "None" /\ widget'.kind = "Container") =>
          /\ Container_width(widget') = Auto
          /\ Container_height(widget') = Auto
          /\ Container_updated(widget') = TRUE
          /\ Container_border_vertical(widget') = " "
          /\ Container_border_horizontal(widget') = " "
          /\ Container_border_intersect(widget') = " "
          /\ Container_padding_vertical(widget') = 0
          /\ Container_padding_horizontal(widget') = 0
          /\ Container_z_index(widget') = 0
          /\ Container_title(widget') = ""
          /\ widget'.elements = args'.elements
          /\ widget'.layout = args'.layout]_vars

\* A container as new() returns it, built from two different children with
\* a layout other than the first variant.
C6_Witness ==
    /\ IsContainer
    /\ widget = Container_new(args.elements, args.layout)
    /\ Len(args.elements) = 2
    /\ args.elements[1].kind = "Table" /\ args.elements[2].kind = "Container"
    /\ args.layout = "Tabbed"

\* C7: set_current_page(n) makes current_page() = n and leaves items_by_page()
\* unchanged; set_items_by_page(n) makes items_by_page() = n and leaves
\* current_page() unchanged; for every n, 0 and pages beyond the data included,
\* and both calls are possible on every table.
C7_PaginationSetters ==
    [][/\ \A n \in U32Samples :
            TableSetCurrentPage(n) =>
               /\ Table_current_page(widget') = n
               /\ Table_items_by_page(widget') = Table_items_by_page(widget)
       /\ \A n \in U32Samples :
            TableSetItemsByPage(n) =>
               /\ Table_items_by_page(widget') = n
               /\ Table_current_page(widget') = Table_current_page(widget)
       /\ IsTable => \A n \in U32Samples :
                        /\ ENABLED TableSetCurrentPage(n)
                        /\ ENABLED TableSetItemsByPage(n)]_vars

\* A table of two rows on a page far beyond them, with zero items by page.
C7_Witness ==
    /\ IsTable
    /\ Len(Table_data(widget)) = 2
    /\ Table_current_page(widget) = 2147483647
    /\ Table_items_by_page(widget) = 0

\* C8: container.set_z_index(z) makes the container's z_index() = z and leaves
\* the elements sequence, and the z_index() of every child, unchanged.
C8_ZIndexNoCascade ==
    [][\A z \in U8Samples :
          ContainerSetZIndex(z) =>
             /\ Container_z_index(widget') = z
             /\ widget'.elements = widget.elements
             /\ Len(widget'.elements) = Len(widget.elements)
             /\ \A i \in 1..Len(widget.elements) :
                   z_index(widget'.elements[i]) = z_index(widget.elements[i])]_vars

\* A container with z index 255 whose two children have z indexes 0 and 255.
C8_Witness ==
    /\ IsContainer
    /\ Container_z_index(widget) = 255
    /\ Len(widget.elements) = 2
    /\ z_index(widget.elements[1]) = 0
    /\ z_index(widget.elements[2]) = 255

\* C9: in every state, the border glyphs and paddings of a widget are those
\* new() gave it: three spaces, with paddings 1/1 for a Table and 0/0 for a
\* Container.
C9_BordersAndPaddingFixed ==
    IsWidget =>
       /\ border_vertical(widget) = " "
       /\ border_horizontal(widget) = " "
       /\ border_intersect(widget) = " "
       /\ padding_vertical(widget) = (IF IsTable THEN 1 ELSE 0)
       /\ padding_horizontal(widget) = (IF IsTable THEN 1 ELSE 0)

\* A table on which the setters have acted, its height set in chars.
C9_Witness ==
    /\ IsTable
    /\ Table_height(widget) = Chars(255)
    /\ Table_width(widget) = Chars(0)
    /\ Table_title(widget) = "Title"
    /\ Table_z_index(widget) = 255
    /\ ~Table_updated(widget)
    /\ Table_items_by_page(widget) = 20

\* What set_width and set_height must leave alone besides the other dimension.
SameButGeometry ==
    /\ title(widget') = title(widget)
    /\ z_index(widget') = z_index(widget)
    /\ IsTable => /\ Table_current_page(widget') = Table_current_page(widget)
                  /\ Table_items_by_page(widget') = Table_items_by_page(widget)

\* C10: for Table and Container and every Size s, Percents above 100 included,
\* set_width(s) makes width() = s and set_height(s) makes height() = s; each
\* leaves the other dimension, the title, the z index and the pagination
\* fields unchanged; and no other call changes width() or height(), so the
\* last value set is the one returned.
C10_GeometrySetters ==
    [][/\ \A s \in Size :
            (TableSetWidth(s) \/ ContainerSetWidth(s)) =>
               /\ width(widget') = s
               /\ height(widget') = height(widget)
               /\ SameButGeometry
       /\ \A s \in Size :
            (TableSetHeight(s) \/ ContainerSetHeight(s)) =>
               /\ height(widget') = s
               /\ width(widget') = width(widget)
               /\ SameButGeometry
       /\ (IsWidget /\ width(widget') # width(widget)) =>
             \E s \in Size : TableSetWidth(s) \/ ContainerSetWidth(s)
       /\ (IsWidget /\ height(widget') # height(widget)) =>
             \E s \in Size : TableSetHeight(s) \/ ContainerSetHeight(s)]_vars

\* A container whose width is 255 percent and whose height is 0 chars, with
\* a title and a z index set as well.
C10_Witness ==
    /\ IsContainer
    /\ Container_width(widget) = Percents(255)
    /\ Container_height(widget) = Chars(0)
    /\ Container_title(widget) = "Title"
    /\ Container_z_index(widget) = 255
    /\ Len(widget.elements) = 1

====
